---- MODULE Spec2Model ----
(***************************************************************************)
(* fpb: a wrapper that runs ffmpeg, reads its stderr byte by byte, learns  *)
(* duration / source / frame rate / position from the completed lines,     *)
(* drives a throttled progress bar, forwards "[y/N] " prompts to the user  *)
(* and decides the exit status.                                            *)
(*                                                                         *)
(* Two revisions of the program are in the repository.  The revision with  *)
(* prompt forwarding and the stderr buffer is src/unnamed/part_000 (its Go *)
(* file starts at line 86); src/fpb.go is the revision without them.       *)
(* build = "part_000" or "fpb.go" says which one runs.  Text is modelled   *)
(* as sequences of one-character strings.                                  *)
(***************************************************************************)
EXTENDS Integers, Sequences, FiniteSets, TLC

VARIABLES
    build,       \* which revision runs: "part_000" or "fpb.go"
    args,        \* len(os.Args) - 1
    useColors,   \* supportsColor(os.Stderr)
    pc,          \* position of main
    exitCode,    \* NoExit while the program runs, then the os.Exit status
    proc,        \* the wrapped process: "none", "running", "exited" (with
                 \* procStatus), "lost" (ended, no exit status to collect), "killed"
    procStatus,  \* the status the wrapped process exits with
    pipe,        \* bytes of the wrapped process's stderr not yet read
    fed,         \* bytes of it the reading goroutine has read so far
    rd,          \* the reading goroutine: "none", "reading", "done"
    done,        \* the done channel (capacity 1)
    sigChan,     \* the signal channel (capacity 1)
    cpn,         \* the ColoredProgressNotifier
    pbar,        \* cpn.pbar: NoBar or the ProgressBar
    out,         \* what the program wrote to its own stderr, in order
    fwd,         \* the forwardUserInput goroutines, in spawn order
    userIn,      \* bytes of the user's input device not yet read
    userTyped,   \* everything the user's input device supplies
    userClosed,  \* the user's input device ends after userIn
    childIn,     \* bytes written to the wrapped process's stdin
    now,         \* milliseconds since the ProgressBar was constructed
    input,       \* the arguments of a call made to one function on its own
    result       \* what that call returned, NoResult before it

vars == <<build, args, useColors, pc, exitCode, proc, procStatus, pipe, fed, rd,
          done, sigChan, cpn, pbar, out, fwd, userIn, userTyped, userClosed,
          childIn, now, input, result>>

----------------------------------------------------------------------------
(* Bounds of the model *)

MaxLines == 2
MaxFactLines == 3
MaxStatus == 2
MaxTime == 50
MaxStripLen == 6
MaxFeed == 4
MaxDescAscii == 32
MaxDescWide == 16
MaxBarWidth == 7
MaxBarTotal == 7
MaxFpsDigits == 3

----------------------------------------------------------------------------
(* Program constants *)

SIGINT == 2
SIGTERM == 15
UpdateDelayMs == 50
SignalExitBase == 128

MaxLabelLen == 30
LabelKeep == 27
MinBarSpace == 5
MinTermWidth == 20
FallbackWidth == 80

NoExit == -1
NoCall == [fn |-> "none"]
NoResult == [none |-> TRUE]
NoBar == [none |-> TRUE]
ZeroTime == -1

LF == "\n"
CR == "\r"
\* the byte 0x1b, and the runes beyond 0x7F the status line uses; each is one
\* element of a text
ESC == "ESC"
Bullet == "U+2022"
NonASCII == {Bullet, "U+2501", "U+2578"}

Digits == {"0", "1", "2", "3", "4", "5", "6", "7", "8", "9"}

DigitVal(c) ==
    CASE c = "0" -> 0 [] c = "1" -> 1 [] c = "2" -> 2 [] c = "3" -> 3
      [] c = "4" -> 4 [] c = "5" -> 5 [] c = "6" -> 6 [] c = "7" -> 7
      [] c = "8" -> 8 [] c = "9" -> 9

DurationLabel == <<"D", "u", "r", "a", "t", "i", "o", "n", ":", " ">>
TimeLabel == <<"t", "i", "m", "e", "=">>
FromLabel == <<"f", "r", "o", "m", " ", "'">>
FromEnd == <<"'", ":">>
FpsToken == <<" ", "f", "p", "s">>
PromptSuffix == <<"[", "y", "/", "N", "]", " ">>
Processing == <<"P", "r", "o", "c", "e", "s", "s", "i", "n", "g">>

----------------------------------------------------------------------------
(* Helpers on text *)

Min(S) == CHOOSE x \in S : \A y \in S : x <= y
Max(S) == CHOOSE x \in S : \A y \in S : x >= y

RECURSIVE Concat(_)
Concat(ss) == IF ss = <<>> THEN <<>> ELSE Head(ss) \o Concat(Tail(ss))

\* strings.HasSuffix
HasSuffix(s, suffix) ==
    /\ Len(s) >= Len(suffix)
    /\ SubSeq(s, Len(s) - Len(suffix) + 1, Len(s)) = suffix

\* the literal pat occurs in s at index i
LitAt(s, i, pat) ==
    /\ i >= 1
    /\ i + Len(pat) - 1 <= Len(s)
    /\ SubSeq(s, i, i + Len(pat) - 1) = pat

\* \d at index i
DigitAt(s, i) == i >= 1 /\ i <= Len(s) /\ s[i] \in Digits

\* strconv.Atoi on a string of decimal digits
RECURSIVE Atoi(_)
Atoi(s) ==
    IF s = <<>> THEN 0
    ELSE Atoi(SubSeq(s, 1, Len(s) - 1)) * 10 + DigitVal(s[Len(s)])

\* (\d{2}):(\d{2}):(\d{2})\.\d{2} at index i
TimestampAt(s, i) ==
    /\ DigitAt(s, i) /\ DigitAt(s, i + 1) /\ LitAt(s, i + 2, <<":">>)
    /\ DigitAt(s, i + 3) /\ DigitAt(s, i + 4) /\ LitAt(s, i + 5, <<":">>)
    /\ DigitAt(s, i + 6) /\ DigitAt(s, i + 7) /\ LitAt(s, i + 8, <<".">>)
    /\ DigitAt(s, i + 9) /\ DigitAt(s, i + 10)

\* FindStringSubmatch of label(\d{2}):(\d{2}):(\d{2})\.\d{2}: the leftmost match,
\* as <<whole, hours, minutes, secs>>, or <<>> when nothing matches
FindTimestamp(label, line) ==
    LET starts == {i \in 1..Len(line) :
                      LitAt(line, i, label) /\ TimestampAt(line, i + Len(label))}
    IN  IF starts = {} THEN <<>>
        ELSE LET t == Min(starts) + Len(label)
             IN  << SubSeq(line, Min(starts), t + 10),
                    SubSeq(line, t, t + 1),
                    SubSeq(line, t + 3, t + 4),
                    SubSeq(line, t + 6, t + 7) >>

durationRx(line) == FindTimestamp(DurationLabel, line)
progressRx(line) == FindTimestamp(TimeLabel, line)

\* FindStringSubmatch of from '(.*)': -- leftmost start, greedy capture
sourceRx(line) ==
    LET ends(i) == {j \in (i + Len(FromLabel))..Len(line) : LitAt(line, j, FromEnd)}
        starts == {i \in 1..Len(line) : LitAt(line, i, FromLabel) /\ ends(i) # {}}
    IN  IF starts = {} THEN <<>>
        ELSE LET i == Min(starts)
                 j == Max(ends(i))
             IN  << SubSeq(line, i, j + 1),
                    SubSeq(line, i + Len(FromLabel), j - 1) >>

\* FindStringSubmatch of (\d{2}\.\d{2}|\d{2}) fps -- leftmost start, and at one
\* start the first alternative that lets the whole pattern match
FpsLongAt(s, i) ==
    /\ DigitAt(s, i) /\ DigitAt(s, i + 1) /\ LitAt(s, i + 2, <<".">>)
    /\ DigitAt(s, i + 3) /\ DigitAt(s, i + 4) /\ LitAt(s, i + 5, FpsToken)
FpsShortAt(s, i) ==
    /\ DigitAt(s, i) /\ DigitAt(s, i + 1) /\ LitAt(s, i + 2, FpsToken)

fpsRx(line) ==
    LET starts == {i \in 1..Len(line) : FpsLongAt(line, i) \/ FpsShortAt(line, i)}
    IN  IF starts = {} THEN <<>>
        ELSE LET i == Min(starts)
                 n == IF FpsLongAt(line, i) THEN 5 ELSE 2
             IN  << SubSeq(line, i, i + n - 1 + Len(FpsToken)),
                    SubSeq(line, i, i + n - 1) >>

\* int(strconv.ParseFloat(s)) for the two shapes fpsRx captures: the value in
\* hundredths, truncated toward zero
ParseFloatInt(s) ==
    LET hundredths == IF Len(s) = 5
                      THEN Atoi(SubSeq(s, 1, 2)) * 100 + Atoi(SubSeq(s, 4, 5))
                      ELSE Atoi(s) * 100
    IN  hundredths \div 100

\* filepath.Base with "/" as the separator
RECURSIVE StripTrailingSlashes(_)
StripTrailingSlashes(p) ==
    IF Len(p) > 0 /\ p[Len(p)] = "/"
    THEN StripTrailingSlashes(SubSeq(p, 1, Len(p) - 1))
    ELSE p

Base(path) ==
    IF path = <<>> THEN <<".">>
    ELSE LET p == StripTrailingSlashes(path)
             slashes == {i \in 1..Len(p) : p[i] = "/"}
             b == IF slashes = {} THEN p ELSE SubSeq(p, Max(slashes) + 1, Len(p))
         IN  IF b = <<>> THEN <<"/">> ELSE b

----------------------------------------------------------------------------
(* The fact extractors *)

\* seconds without the hours
secondsOfMinutes(hours, minutes, secs) == Atoi(minutes) * 60 + Atoi(secs)

seconds(hours, minutes, secs) ==
    (Atoi(hours) * 60 + Atoi(minutes)) * 60 + Atoi(secs)

getDuration(line) ==
    LET matches == durationRx(line)
    IN  IF Len(matches) > 3 THEN seconds(matches[2], matches[3], matches[4]) ELSE 0

\* getSource without the reduction of the path to its last element
getSourceWholePath(line) ==
    LET matches == sourceRx(line)
    IN  IF Len(matches) > 1 THEN matches[2] ELSE <<>>

getSource(line) ==
    LET matches == sourceRx(line)
    IN  IF Len(matches) > 1 THEN Base(matches[2]) ELSE <<>>

getFPS(line) ==
    LET matches == fpsRx(line)
    IN  IF Len(matches) > 1 THEN ParseFloatInt(matches[2]) ELSE 0

----------------------------------------------------------------------------
(* The program's own stderr: one record per write *)

OutRec(kind, text, current, total, color) ==
    [kind |-> kind, text |-> text, current |-> current, total |-> total,
     color |-> color]

Msg(kind) == OutRec(kind, <<>>, 0, 0, FALSE)

----------------------------------------------------------------------------
(* ProgressBar *)

NewProgressBar(desc, total, unit, t) ==
    [total |-> total, current |-> 0, desc |-> desc, unit |-> unit,
     startTime |-> t, lastUpdate |-> ZeroTime, updateDelay |-> UpdateDelayMs]

\* NewColors
Reset == <<ESC, "[", "0", "m">>
Red == <<ESC, "[", "3", "1", "m">>
Yellow == <<ESC, "[", "3", "3", "m">>
Blue == <<ESC, "[", "3", "4", "m">>

\* handleFilename, on the bytes of the name
handleFilename(filename) ==
    IF Len(filename) > MaxLabelLen
    THEN SubSeq(filename, 1, LabelKeep) \o <<".", ".", ".">>
    ELSE filename

\* ansiRe, \x1b\[[0-9;]*[mGKHfABCDEFGJSTuhlp]: where the match that starts at
\* index i ends, or 0 when none starts there
AnsiParams == Digits \cup {";"}
AnsiFinals == {"m", "G", "K", "H", "f", "A", "B", "C", "D", "E", "F", "J", "S",
               "T", "u", "h", "l", "p"}
AnsiEnd(s, i) ==
    IF ~LitAt(s, i, <<ESC, "[">>) THEN 0
    ELSE LET stops == {j \in (i + 2)..Len(s) : s[j] \notin AnsiParams}
         IN  IF stops = {} THEN 0
             ELSE IF s[Min(stops)] \in AnsiFinals THEN Min(stops) ELSE 0

\* ansiRe.ReplaceAllString(str, ""): the leftmost matches, one after the other,
\* are dropped from index i on
RECURSIVE ansiReRemove(_, _)
ansiReRemove(s, i) ==
    IF i > Len(s) THEN <<>>
    ELSE IF AnsiEnd(s, i) > 0 THEN ansiReRemove(s, AnsiEnd(s, i) + 1)
    ELSE <<s[i]>> \o ansiReRemove(s, i + 1)

\* unicodeRe.ReplaceAllString(stripped, " ")
unicodeReReplace(s) == [i \in 1..Len(s) |-> IF s[i] \in NonASCII THEN " " ELSE s[i]]

\* stripANSI without the replacement of the runes beyond 0x7F
stripANSIEscapesOnly(str) == ansiReRemove(str, 1)

stripANSI(str) == unicodeReReplace(ansiReRemove(str, 1))

\* rightInfo as render formats it, from the texts of its numbers
Separator == <<" ", Bullet, " ">>
rightInfo(colored, pct, counts, rate, eta) ==
    IF colored
    THEN <<" ">> \o Yellow \o pct \o <<"%">> \o Reset \o Separator \o counts
         \o Separator \o Red \o rate \o <<"f", "p", "s">> \o Reset \o Separator
         \o <<"E", "T", "A", " ">> \o Blue \o eta \o Reset
    ELSE <<" ">> \o pct \o <<"%">> \o Separator \o counts \o Separator \o rate
         \o <<"f", "p", "s">> \o Separator \o <<"E", "T", "A", " ">> \o eta

\* spaceForBar without the lower limit of the fallback layout
spaceForBarUnclamped(termWidth, leftSide, info) ==
    LET rightInfoPlainLength == Len(stripANSI(info))
        space == termWidth - Len(leftSide) - 1 - rightInfoPlainLength
    IN  IF space < MinBarSpace \/ termWidth < MinTermWidth
        THEN FallbackWidth - Len(leftSide) - 1 - rightInfoPlainLength
        ELSE space

\* the width render gives the bar
spaceForBar(termWidth, leftSide, info) ==
    LET rightInfoPlainLength == Len(stripANSI(info))
        space == termWidth - Len(leftSide) - 1 - rightInfoPlainLength
        fallback == FallbackWidth - Len(leftSide) - 1 - rightInfoPlainLength
    IN  IF space < MinBarSpace \/ termWidth < MinTermWidth
        THEN IF fallback < MinBarSpace THEN MinBarSpace ELSE fallback
        ELSE space

\* the percentage render shows: %.1f of float64(current) / float64(total) * 100,
\* and 0 when total is 0 -- here in tenths of a percent, rounded to the nearest
percentage(current, total) ==
    IF total = 0 THEN 0 ELSE (2000 * current + total) \div (2 * total)

\* float64: the value of the binary numeral bits, most significant digit first
\* and without leading zeros, times 2^exp; the numeral has at most Mantissa digits
Mantissa == 53

RECURSIVE BitsOf(_)
BitsOf(n) == IF n = 0 THEN <<>> ELSE Append(BitsOf(n \div 2), n % 2)

RECURSIVE ValueOf(_)
ValueOf(bits) ==
    IF bits = <<>> THEN 0
    ELSE 2 * ValueOf(SubSeq(bits, 1, Len(bits) - 1)) + bits[Len(bits)]

\* the numeral without its leading zeros
StripZeros(bits) ==
    LET ones == {i \in 1..Len(bits) : bits[i] = 1}
    IN  IF ones = {} THEN <<>> ELSE SubSeq(bits, Min(ones), Len(bits))

Zeros(n) == SubSeq([i \in 1..n |-> 0], 1, n)

\* the numeral of bits + 1
Increment(bits) ==
    LET zeros == {i \in 1..Len(bits) : bits[i] = 0}
    IN  IF zeros = {} THEN <<1>> \o Zeros(Len(bits))
        ELSE SubSeq([i \in 1..Len(bits) |->
                        IF i < Max(zeros) THEN bits[i]
                        ELSE IF i = Max(zeros) THEN 1 ELSE 0], 1, Len(bits))

\* long numerals are worked on LimbBits digits at a time
LimbBits == Mantissa \div 4
LimbBase == 2 ^ LimbBits
\* the numeral in limbs, most significant first
Limbs(bits) ==
    LET n == (Len(bits) + LimbBits - 1) \div LimbBits
        padded == Zeros(n * LimbBits - Len(bits)) \o bits
    IN  [j \in 1..n |-> ValueOf(SubSeq(padded, (j - 1) * LimbBits + 1, j * LimbBits))]
\* the numeral of a sequence of limbs
BitsOfLimbs(limbs) ==
    SubSeq([i \in 1..(Len(limbs) * LimbBits) |->
               (limbs[(i - 1) \div LimbBits + 1]
                   \div (2 ^ (LimbBits - 1 - ((i - 1) % LimbBits)))) % 2],
           1, Len(limbs) * LimbBits)

\* the limbs of limbs * k + carry, k a small integer
RECURSIVE TimesLimbs(_, _, _)
TimesLimbs(limbs, k, carry) ==
    IF limbs = <<>> THEN IF carry = 0 THEN <<>> ELSE <<carry>>
    ELSE Append(TimesLimbs(SubSeq(limbs, 1, Len(limbs) - 1), k,
                           (limbs[Len(limbs)] * k + carry) \div LimbBase),
                (limbs[Len(limbs)] * k + carry) % LimbBase)

\* the numeral of bits * k
TimesSmall(bits, k) == StripZeros(BitsOfLimbs(TimesLimbs(Limbs(bits), k, 0)))

\* <<the quotient's limbs, the remainder>> of the division by the small integer
\* d of limbs with rem carried in from the limbs before them
RECURSIVE DivLimbs(_, _, _)
DivLimbs(limbs, d, rem) ==
    IF limbs = <<>> THEN <<<<>>, rem>>
    ELSE LET v == rem * LimbBase + Head(limbs)
             r == DivLimbs(Tail(limbs), d, v % d)
         IN  <<<<v \div d>> \o r[1], r[2]>>

\* <<the numeral of bits \div d, bits % d>>
DivSmall(bits, d) ==
    LET q == DivLimbs(Limbs(bits), d, 0)
    IN  <<StripZeros(BitsOfLimbs(q[1])), q[2]>>

\* the float64 nearest to bits * 2^exp (plus a little more when sticky), ties
\* to the even numeral
RoundToFloat(bits, exp, sticky) ==
    IF Len(bits) <= Mantissa THEN [bits |-> bits, exp |-> exp]
    ELSE LET keep == SubSeq(bits, 1, Mantissa)
             rest == SubSeq(bits, Mantissa + 1, Len(bits))
             more == sticky \/ \E i \in 2..Len(rest) : rest[i] = 1
             up   == rest[1] = 1 /\ (more \/ keep[Mantissa] = 1)
             k    == IF up THEN Increment(keep) ELSE keep
         IN  IF Len(k) > Mantissa
             THEN [bits |-> SubSeq(k, 1, Mantissa), exp |-> exp + Len(rest) + 1]
             ELSE [bits |-> k, exp |-> exp + Len(rest)]

\* float64(n) of a small integer
Float(n) == [bits |-> BitsOf(n), exp |-> 0]
\* x * float64(k)
FloatTimes(x, k) == RoundToFloat(TimesSmall(x.bits, k), x.exp, FALSE)
\* the digits to work out after those of x so that the quotient by d has two
\* digits more than a float64 keeps
GuardBits(x, d) == Mantissa + 2 + Len(BitsOf(d)) - Len(x.bits)
\* x / float64(d), d # 0
FloatOver(x, d) ==
    LET q == DivSmall(x.bits \o Zeros(GuardBits(x, d)), d)
    IN  RoundToFloat(q[1], x.exp - GuardBits(x, d), q[2] # 0)
\* int(x) of a float64 that is not negative: the fraction is cut off
FloatToInt(x) ==
    IF x.exp >= 0 THEN ValueOf(x.bits \o Zeros(x.exp))
    ELSE IF Len(x.bits) + x.exp <= 0 THEN 0
    ELSE ValueOf(SubSeq(x.bits, 1, Len(x.bits) + x.exp))

\* render: percentage := float64(pb.current) / float64(pb.total) * 100, and 0
\* when pb.total is 0
percentageFloat(current, total) ==
    IF total = 0 THEN Float(0) ELSE FloatTimes(FloatOver(Float(current), total), 100)

\* render: filled := int(float64(spaceForBar) * percentage / 100)
filled(space, pct) == FloatToInt(FloatOver(FloatTimes(pct, space), 100))

\* the glyphs of the bar and one cell of it
Solid == "U+2501"
Transition == "U+2578"
Cell(glyph, green) == [glyph |-> glyph, green |-> green]

\* buildRichBar: the cells of the decorated bar; the loop's i is the index - 1
buildRichBar(n, total) ==
    IF total <= 0 THEN <<>>
    ELSE [i \in 1..total |->
             IF i - 1 < n THEN Cell(Solid, TRUE)
             ELSE IF i - 1 = n /\ n < total THEN Cell(Transition, TRUE)
             ELSE Cell(Solid, FALSE)]

\* buildSimpleBar: the cells of the plain bar
buildSimpleBar(n, total) ==
    IF total <= 0 THEN <<>>
    ELSE [i \in 1..total |->
             IF i - 1 < n THEN Cell(Solid, FALSE)
             ELSE IF i - 1 = n /\ n < total THEN Cell(Transition, FALSE)
             ELSE Cell(Solid, FALSE)]

\* render: the bar of the status line, decorated with pb.useColors and pb.colors
barOf(colored, n, space) ==
    IF colored THEN buildRichBar(n, space) ELSE buildSimpleBar(n, space)

\* render: one status line, written from the bar's fields
render(bar) ==
    OutRec("render", handleFilename(bar.desc), bar.current, bar.total, useColors)

\* Throttled without the test of the time since the last update
ThrottledNever(bar, t) == FALSE

\* now.Sub(pb.lastUpdate) < pb.updateDelay; the zero time is long ago
Throttled(bar, t) ==
    bar.lastUpdate # ZeroTime /\ t - bar.lastUpdate < bar.updateDelay

\* Update: <<the bar afterwards, what it wrote>>
Update(bar, current, t) ==
    LET b == [bar EXCEPT !.current = current]
    IN  IF Throttled(b, t) THEN <<b, <<>>>>
        ELSE LET r == [b EXCEPT !.lastUpdate = t]
             IN  <<r, <<render(r)>>>>

\* Finish: <<the bar afterwards, what it wrote>>
Finish(bar) ==
    LET b == [bar EXCEPT !.current = bar.total]
    IN  <<b, <<render(b), Msg("newline")>>>>

----------------------------------------------------------------------------
(* ColoredProgressNotifier *)

NewColoredProgressNotifier ==
    [lines |-> <<>>, lineAcc |-> <<>>, duration |-> 0, source |-> <<>>,
     fps |-> 0, stderrBuffer |-> <<>>, waitingForInput |-> FALSE]

\* newline without the reset of the accumulator
newlineKeepsAcc(c) == [c EXCEPT !.lines = Append(@, c.lineAcc)]

\* newline: the line goes to the history and the accumulator is reset
newline(c) ==
    [c EXCEPT !.lines = Append(@, c.lineAcc), !.lineAcc = <<>>]

\* learnDuration without the guard on a duration already known
learnDurationAlways(c, line) == getDuration(line)

\* the three first-match-only facts, as ProcessChar guards them
learnDuration(c, line) == IF c.duration = 0 THEN getDuration(line) ELSE c.duration
learnSource(c, line) == IF c.source = <<>> THEN getSource(line) ELSE c.source
learnFPS(c, line) == IF c.fps = 0 THEN getFPS(line) ELSE c.fps

\* the sample progress computes from a matched position line
sampleCurrent(c, matches) ==
    LET current == seconds(matches[2], matches[3], matches[4])
    IN  IF c.fps > 0 THEN current * c.fps ELSE current
\* sampleTotal without the conversion to frames
sampleTotalUnscaled(c) == c.duration

sampleTotal(c) ==
    IF c.fps > 0 /\ c.duration > 0 THEN c.duration * c.fps ELSE c.duration
sampleUnit(c) == IF c.fps > 0 THEN "frames" ELSE "seconds"
barDesc(c) == IF c.source = <<>> THEN Processing ELSE c.source

\* barFor with the bar built anew from the facts at every position line
barForRebuilt(c, bar, t) ==
    NewProgressBar(barDesc(c), sampleTotal(c), sampleUnit(c), t)

\* the bar progress updates: the existing one, or a new one on the first match
barFor(c, bar, t) ==
    IF bar = NoBar
    THEN NewProgressBar(barDesc(c), sampleTotal(c), sampleUnit(c), t)
    ELSE bar

\* progress: <<the bar afterwards, what it wrote>>
progress(c, bar, line, t) ==
    LET matches == progressRx(line)
    IN  IF Len(matches) > 3
        THEN Update(barFor(c, bar, t), sampleCurrent(c, matches), t)
        ELSE <<bar, <<>>>>

\* the prompt echo
promptEcho(prompt) == OutRec("prompt", prompt, 0, 0, useColors)

\* a forwardUserInput goroutine that has not read yet
NewForward == [st |-> "reading", acc |-> <<>>, line |-> <<>>]

\* bufferByte that leaves the terminators out
bufferByteNoTerminators(c, char) ==
    IF build = "part_000" /\ char # CR /\ char # LF
    THEN [c EXCEPT !.stderrBuffer = Append(@, char)]
    ELSE c

\* stderrBuffer.WriteByte: only the revision with the buffer has it
bufferByte(c, char) ==
    IF build = "part_000" THEN [c EXCEPT !.stderrBuffer = Append(@, char)] ELSE c

\* spawnForward with a second goroutine for the same prompt
spawnForwardTwice(tasks) ==
    IF build = "part_000" THEN Append(Append(tasks, NewForward), NewForward) ELSE tasks

\* the go cpn.forwardUserInput() of the prompt branch
spawnForward(tasks) ==
    IF build = "part_000" THEN Append(tasks, NewForward) ELSE tasks

\* ProcessChar with the frame rate looked for in a line a prompt completes too
ProcessCharMatchingPrompts(char) ==
    LET c0 == bufferByte(cpn, char)
    IN  IF char = CR \/ char = LF
        THEN LET line == c0.lineAcc
                 c1 == newline(c0)
                 c2 == [c1 EXCEPT !.duration = learnDuration(c1, line)]
                 c3 == [c2 EXCEPT !.source = learnSource(c2, line)]
                 c4 == [c3 EXCEPT !.fps = learnFPS(c3, line)]
                 r  == progress(c4, pbar, line, now)
             IN  /\ cpn' = c4
                 /\ pbar' = r[1]
                 /\ out' = out \o r[2]
                 /\ UNCHANGED fwd
        ELSE LET c1 == [c0 EXCEPT !.lineAcc = Append(@, char)]
                 c2 == newline([c1 EXCEPT !.waitingForInput = (build = "part_000")])
             IN  IF HasSuffix(c1.lineAcc, PromptSuffix)
                 THEN /\ out' = Append(out, promptEcho(c1.lineAcc))
                      /\ cpn' = [c2 EXCEPT !.fps = learnFPS(c2, c1.lineAcc)]
                      /\ fwd' = spawnForward(fwd)
                      /\ UNCHANGED pbar
                 ELSE /\ cpn' = c1
                      /\ UNCHANGED <<pbar, out, fwd>>

\* ProcessChar, on the reading goroutine
ProcessChar(char) ==
    LET c0 == bufferByte(cpn, char)
    IN  IF char = CR \/ char = LF
        THEN LET line == c0.lineAcc
                 c1 == newline(c0)
                 c2 == [c1 EXCEPT !.duration = learnDuration(c1, line)]
                 c3 == [c2 EXCEPT !.source = learnSource(c2, line)]
                 c4 == [c3 EXCEPT !.fps = learnFPS(c3, line)]
                 r  == progress(c4, pbar, line, now)
             IN  /\ cpn' = c4
                 /\ pbar' = r[1]
                 /\ out' = out \o r[2]
                 /\ UNCHANGED fwd
        ELSE LET c1 == [c0 EXCEPT !.lineAcc = Append(@, char)]
             IN  IF HasSuffix(c1.lineAcc, PromptSuffix)
                 THEN /\ out' = Append(out, promptEcho(c1.lineAcc))
                      /\ cpn' = newline([c1 EXCEPT !.waitingForInput =
                                                     (build = "part_000")])
                      /\ fwd' = spawnForward(fwd)
                      /\ UNCHANGED pbar
                 ELSE /\ cpn' = c1
                      /\ UNCHANGED <<pbar, out, fwd>>

\* Close: the deferred call, <<the bar afterwards, what it wrote>>
Close(bar) == IF bar # NoBar THEN Finish(bar) ELSE <<bar, <<>>>>

----------------------------------------------------------------------------
(* What the wrapped process and the user may send *)

ErrLine == <<"e", "r", "r", LF>>
PromptLine == <<"o", "?", " ", "[", "y", "/", "N", "]", " ">>
Time45Line ==
    <<"t", "i", "m", "e", "=", "0", "0", ":", "0", "0", ":", "4", "5", ".", "0",
      "0", CR>>
Time60Line ==
    <<"t", "i", "m", "e", "=", "0", "0", ":", "0", "1", ":", "0", "0", ".", "0",
      "0", CR>>
Dur90Line ==
    <<"D", "u", "r", "a", "t", "i", "o", "n", ":", " ", "0", "0", ":", "0", "1",
      ":", "3", "0", ".", "0", "0", LF>>
Dur0Line ==
    <<"D", "u", "r", "a", "t", "i", "o", "n", ":", " ", "0", "0", ":", "0", "0",
      ":", "0", "0", ".", "5", "0", LF>>
FromLine ==
    <<"f", "r", "o", "m", " ", "'", "a", "/", "c", "l", "i", "p", ".", "m", "p",
      "4", "'", ":", LF>>
FpsLine == <<"2", "9", ".", "9", "7", " ", "f", "p", "s", LF>>
ClipName == <<"c", "l", "i", "p", ".", "m", "p", "4">>

\* the lines of a run of the whole program, and of a run that feeds facts
StreamLines == {ErrLine, PromptLine, Time45Line}
FactLines == {Dur90Line, Dur0Line, FromLine, FpsLine, Time45Line, Time60Line}

\* the pieces of a stream that is fed byte by byte: the terminators, a byte, a
\* prompt suffix, an unterminated position and an unterminated frame rate
FeedChunks ==
    {<<CR>>, <<LF>>, <<"e">>, PromptSuffix, SubSeq(Time45Line, 1, Len(Time45Line) - 1),
     SubSeq(FpsLine, 1, Len(FpsLine) - 1)}

\* every sequence of at most n members of S
SeqsUpTo(S, n) == UNION {[1..k -> S] : k \in 0..n}

\* what the user's input device holds
UserInputs == {<<>>, <<"y", LF>>, <<"y">>}

\* the arguments of the calls made to one function on its own.  A name is a
\* sequence of bytes: k times "a", then m times the two bytes of a character
\* beyond 0x7F; a text handed to stripANSI is a sequence of runes
WideLead == "xC3"
WideCont == "xA9"
Desc(k, m) ==
    [i \in 1..k |-> "a"] \o [i \in 1..(2 * m) |-> IF i % 2 = 1 THEN WideLead
                                                  ELSE WideCont]
Descs == {Desc(k, m) : k \in 0..MaxDescAscii, m \in 0..MaxDescWide}

FieldDigits == {"0", "5", "9"}
TwoDigits == [1..2 -> FieldDigits]

StripAlphabet == {ESC, "[", "3", "m", Bullet}

ShortInfo(colored) ==
    rightInfo(colored, <<"5", "0", ".", "0">>, <<"4", "5", "/", "9", "0">>,
              <<"1">>, <<"0", "0", ":", "4", "5">>)
LongInfo(colored) ==
    rightInfo(colored, <<"1", "0", "0", ".", "0">>,
              <<"1", "2", "3", "4", "5", "6", "7", "8", "9", "/", "1", "2", "3",
                "4", "5", "6", "7", "8", "9">>,
              <<"1", "2", "3", "4", "5">>, <<"1", "2", "3", "4", ":", "5", "6">>)
InfoSamples == {ShortInfo(c) : c \in BOOLEAN} \cup {LongInfo(c) : c \in BOOLEAN}

TermWidths == {0, 19, 20, 46, 47, 80, 120}
LayoutDescs == {Desc(0, 0), ClipName, Desc(MaxLabelLen, 0), Desc(MaxLabelLen + 1, 0)}

\* the digits of a frame rate printed before " fps": the whole part, and the
\* fraction when there is one
FpsWholes == UNION {[1..k -> FieldDigits] : k \in 1..MaxFpsDigits}
FpsFractions == SeqsUpTo(FieldDigits, MaxFpsDigits)
FpsLeads == {<<>>, <<"x">>}
\* the line of a call of getFPS; without a whole part it has no number
FpsLineOf(c) ==
    c.lead \o c.whole
    \o (IF c.frac = <<>> THEN <<>> ELSE <<".">> \o c.frac) \o FpsToken

CallInputs ==
    {[fn |-> "getDuration", hours |-> h, minutes |-> m, secs |-> s, frac |-> f] :
        h \in TwoDigits, m \in TwoDigits, s \in TwoDigits, f \in TwoDigits}
    \cup {[fn |-> "handleFilename", filename |-> d] : d \in Descs}
    \cup {[fn |-> "stripANSI", str |-> s] :
             s \in SeqsUpTo(StripAlphabet, MaxStripLen) \cup InfoSamples}
    \cup {[fn |-> "render", termWidth |-> w, desc |-> d, info |-> i] :
             w \in TermWidths, d \in LayoutDescs, i \in InfoSamples}
    \cup {[fn |-> "getFPS", lead |-> l, whole |-> w, frac |-> f] :
             l \in FpsLeads, w \in FpsWholes, f \in FpsFractions}
    \cup {[fn |-> "getFPS", lead |-> l, whole |-> <<>>, frac |-> <<>>] : l \in FpsLeads}
    \cup {[fn |-> "buildBar", space |-> w, current |-> c, total |-> t] :
             w \in 1..MaxBarWidth, c \in 0..(2 * MaxBarTotal), t \in 0..MaxBarTotal}

----------------------------------------------------------------------------
(* Initial states *)

\* the program starts; the environment has fixed what it will meet
InitProgram(builds, lines, n) ==
    /\ build \in builds
    /\ args \in 0..1
    /\ useColors \in BOOLEAN
    /\ pc = "args"
    /\ exitCode = NoExit
    /\ proc = "none"
    /\ procStatus \in 0..MaxStatus
    /\ \E s \in SeqsUpTo(lines, n) : pipe = Concat(s)
    /\ fed = <<>>
    /\ rd = "none"
    /\ done = <<>>
    /\ sigChan = <<>>
    /\ cpn = NewColoredProgressNotifier
    /\ pbar = NoBar
    /\ out = <<>>
    /\ fwd = <<>>
    /\ userIn \in UserInputs
    /\ userTyped = userIn
    /\ userClosed \in BOOLEAN
    /\ childIn = <<>>
    /\ now = 0
    /\ input = NoCall
    /\ result = NoResult

Init == InitProgram({"part_000"}, StreamLines, MaxLines)

InitFpb == InitProgram({"fpb.go"}, StreamLines, MaxLines)

\* two lines are on the user's input device before the first prompt
TypeAhead == <<"y", LF, "n", LF>>

\* the program of src/unnamed/part_000 starts with stdin a pipe or a file
\* holding TypeAhead
InitTypeAhead ==
    /\ build = "part_000"
    /\ args \in 0..1
    /\ useColors \in BOOLEAN
    /\ pc = "args"
    /\ exitCode = NoExit
    /\ proc = "none"
    /\ procStatus \in 0..MaxStatus
    /\ \E s \in SeqsUpTo(StreamLines, MaxLines) : pipe = Concat(s)
    /\ fed = <<>>
    /\ rd = "none"
    /\ done = <<>>
    /\ sigChan = <<>>
    /\ cpn = NewColoredProgressNotifier
    /\ pbar = NoBar
    /\ out = <<>>
    /\ fwd = <<>>
    /\ userIn = TypeAhead
    /\ userTyped = userIn
    /\ userClosed \in BOOLEAN
    /\ childIn = <<>>
    /\ now = 0
    /\ input = NoCall
    /\ result = NoResult

\* the state right after the spawn and the start of the reading goroutine, with the
\* wrapped process's whole output in the pipe and the process gone
InitFacts ==
    /\ build \in {"part_000", "fpb.go"}
    /\ args = 1
    /\ useColors = FALSE
    /\ pc = "select"
    /\ exitCode = NoExit
    /\ proc = "exited"
    /\ procStatus = 0
    /\ \E s \in SeqsUpTo(FactLines, MaxFactLines) : pipe = Concat(s)
    /\ fed = <<>>
    /\ rd = "reading"
    /\ done = <<>>
    /\ sigChan = <<>>
    /\ cpn = NewColoredProgressNotifier
    /\ pbar = NoBar
    /\ out = <<>>
    /\ fwd = <<>>
    /\ userIn = <<>>
    /\ userTyped = <<>>
    /\ userClosed = FALSE
    /\ childIn = <<>>
    /\ now = 0
    /\ input = NoCall
    /\ result = NoResult

\* as InitFacts, with a stream made of pieces
InitFeed ==
    /\ build \in {"part_000", "fpb.go"}
    /\ args = 1
    /\ useColors = FALSE
    /\ pc = "select"
    /\ exitCode = NoExit
    /\ proc = "exited"
    /\ procStatus = 0
    /\ \E s \in SeqsUpTo(FeedChunks, MaxFeed) : pipe = Concat(s)
    /\ fed = <<>>
    /\ rd = "reading"
    /\ done = <<>>
    /\ sigChan = <<>>
    /\ cpn = NewColoredProgressNotifier
    /\ pbar = NoBar
    /\ out = <<>>
    /\ fwd = <<>>
    /\ userIn = <<>>
    /\ userTyped = <<>>
    /\ userClosed = FALSE
    /\ childIn = <<>>
    /\ now = 0
    /\ input = NoCall
    /\ result = NoResult

\* one function is about to be called on its own, outside a run of main
InitCalls ==
    /\ build \in {"part_000", "fpb.go"}
    /\ args = 1
    /\ useColors = FALSE
    /\ pc = "args"
    /\ exitCode = NoExit
    /\ proc = "none"
    /\ procStatus = 0
    /\ pipe = <<>>
    /\ fed = <<>>
    /\ rd = "none"
    /\ done = <<>>
    /\ sigChan = <<>>
    /\ cpn = NewColoredProgressNotifier
    /\ pbar = NoBar
    /\ out = <<>>
    /\ fwd = <<>>
    /\ userIn = <<>>
    /\ userTyped = <<>>
    /\ userClosed = FALSE
    /\ childIn = <<>>
    /\ now = 0
    /\ input \in CallInputs
    /\ result = NoResult

----------------------------------------------------------------------------
(* calls of one function on its own *)

Returned(v) == [val |-> v]

\* the line "Duration: hh:mm:ss.ff" of the call's fields
DurationLineOf(c) ==
    DurationLabel \o c.hours \o <<":">> \o c.minutes \o <<":">> \o c.secs
    \o <<".">> \o c.frac

CallGetDuration ==
    /\ input.fn = "getDuration" /\ result = NoResult
    /\ result' = Returned(getDuration(DurationLineOf(input)))
    /\ UNCHANGED <<input, build, args, useColors, pc, exitCode, proc, procStatus,
                   pipe, fed, rd, done, sigChan, cpn, pbar, out, fwd, userIn,
                   userTyped, userClosed, childIn, now>>

CallHandleFilename ==
    /\ input.fn = "handleFilename" /\ result = NoResult
    /\ result' = Returned(handleFilename(input.filename))
    /\ UNCHANGED <<input, build, args, useColors, pc, exitCode, proc, procStatus,
                   pipe, fed, rd, done, sigChan, cpn, pbar, out, fwd, userIn,
                   userTyped, userClosed, childIn, now>>

CallStripANSI ==
    /\ input.fn = "stripANSI" /\ result = NoResult
    /\ result' = Returned(stripANSI(input.str))
    /\ UNCHANGED <<input, build, args, useColors, pc, exitCode, proc, procStatus,
                   pipe, fed, rd, done, sigChan, cpn, pbar, out, fwd, userIn,
                   userTyped, userClosed, childIn, now>>

\* render, as far as the width of the bar
CallRender ==
    /\ input.fn = "render" /\ result = NoResult
    /\ result' = Returned(spaceForBar(input.termWidth, handleFilename(input.desc),
                                      input.info))
    /\ UNCHANGED <<input, build, args, useColors, pc, exitCode, proc, procStatus,
                   pipe, fed, rd, done, sigChan, cpn, pbar, out, fwd, userIn,
                   userTyped, userClosed, childIn, now>>

CallGetFPS ==
    /\ input.fn = "getFPS" /\ result = NoResult
    /\ result' = Returned(getFPS(FpsLineOf(input)))
    /\ UNCHANGED <<input, build, args, useColors, pc, exitCode, proc, procStatus,
                   pipe, fed, rd, done, sigChan, cpn, pbar, out, fwd, userIn,
                   userTyped, userClosed, childIn, now>>

\* render, from the percentage to the bar: the bar either branch composes
CallBuildBar ==
    /\ input.fn = "buildBar" /\ result = NoResult
    /\ LET n == filled(input.space, percentageFloat(input.current, input.total))
       IN  result' = Returned([filled |-> n,
                               rich |-> barOf(TRUE, n, input.space),
                               simple |-> barOf(FALSE, n, input.space)])
    /\ UNCHANGED <<input, build, args, useColors, pc, exitCode, proc, procStatus,
                   pipe, fed, rd, done, sigChan, cpn, pbar, out, fwd, userIn,
                   userTyped, userClosed, childIn, now>>

----------------------------------------------------------------------------
(* main *)

Running == exitCode = NoExit

\* os.Exit(code), with what was written just before it; pc stays where main ended
Exit(code, written) ==
    /\ exitCode' = code
    /\ out' = out \o written
    /\ pc' = pc

\* len(os.Args) < 2, then signal.Notify and exec.Command
CheckArgs ==
    /\ Running /\ pc = "args"
    /\ IF args < 1
       THEN /\ Exit(1, <<Msg("usage")>>)
       ELSE /\ pc' = "stderrPipe"
            /\ UNCHANGED <<exitCode, out>>
    /\ UNCHANGED <<input, result, build, args, useColors, proc, procStatus, pipe, fed, rd, done,
                   sigChan, cpn, pbar, fwd, userIn, userTyped, userClosed, childIn,
                   now>>

\* cmd.StderrPipe() succeeds
StderrPipeOk ==
    /\ Running /\ pc = "stderrPipe"
    /\ pc' = IF build = "part_000" THEN "stdinPipe" ELSE "start"
    /\ UNCHANGED <<input, result, build, args, useColors, exitCode, proc, procStatus, pipe, fed,
                   rd, done, sigChan, cpn, pbar, out, fwd, userIn, userTyped,
                   userClosed, childIn, now>>

\* cmd.StderrPipe() fails
StderrPipeFail ==
    /\ Running /\ pc = "stderrPipe"
    /\ Exit(1, <<Msg("error")>>)
    /\ UNCHANGED <<input, result, build, args, useColors, proc, procStatus, pipe, fed, rd, done,
                   sigChan, cpn, pbar, fwd, userIn, userTyped, userClosed, childIn,
                   now>>

\* cmd.StdinPipe() succeeds
StdinPipeOk ==
    /\ Running /\ pc = "stdinPipe"
    /\ pc' = "start"
    /\ UNCHANGED <<input, result, build, args, useColors, exitCode, proc, procStatus, pipe, fed,
                   rd, done, sigChan, cpn, pbar, out, fwd, userIn, userTyped,
                   userClosed, childIn, now>>

\* cmd.StdinPipe() fails
StdinPipeFail ==
    /\ Running /\ pc = "stdinPipe"
    /\ Exit(1, <<Msg("error")>>)
    /\ UNCHANGED <<input, result, build, args, useColors, proc, procStatus, pipe, fed, rd, done,
                   sigChan, cpn, pbar, fwd, userIn, userTyped, userClosed, childIn,
                   now>>

\* cmd.Start() succeeds, and the reading goroutine is started
StartOk ==
    /\ Running /\ pc = "start"
    /\ proc' = "running"
    /\ rd' = "reading"
    /\ pc' = "select"
    /\ UNCHANGED <<input, result, build, args, useColors, exitCode, procStatus, pipe, fed, done,
                   sigChan, cpn, pbar, out, fwd, userIn, userTyped, userClosed,
                   childIn, now>>

\* cmd.Start() fails
StartFail ==
    /\ Running /\ pc = "start"
    /\ Exit(1, <<Msg("error")>>)
    /\ UNCHANGED <<input, result, build, args, useColors, proc, procStatus, pipe, fed, rd, done,
                   sigChan, cpn, pbar, fwd, userIn, userTyped, userClosed, childIn,
                   now>>

\* what main writes when cmd.Wait() reports exit status code # 0
replay(code) ==
    IF build = "part_000" /\ cpn.stderrBuffer # <<>>
    THEN <<OutRec("replay", cpn.stderrBuffer, 0, 0, FALSE)>>
    ELSE <<>>

\* the status of the signal case of the select
signalStatus(sig) == SignalExitBase + SIGINT

\* SelectSignal with the deferred Close run before the exit
SelectSignalClosing ==
    /\ Running /\ pc = "select"
    /\ sigChan # <<>>
    /\ sigChan' = Tail(sigChan)
    /\ proc' = IF proc = "running" THEN "killed" ELSE proc
    /\ pbar' = Close(pbar)[1]
    /\ Exit(signalStatus(Head(sigChan)),
            <<OutRec("exiting", <<>>, 0, 0, useColors)>> \o Close(pbar)[2])
    /\ UNCHANGED <<input, result, build, args, useColors, procStatus, pipe, fed, rd,
                   done, cpn, fwd, userIn, userTyped, userClosed, childIn, now>>

\* select: case <-sigChan
SelectSignal ==
    /\ Running /\ pc = "select"
    /\ sigChan # <<>>
    /\ sigChan' = Tail(sigChan)
    /\ proc' = IF proc = "running" THEN "killed" ELSE proc
    /\ Exit(signalStatus(Head(sigChan)),
            <<OutRec("exiting", <<>>, 0, 0, useColors)>>)
    /\ UNCHANGED <<input, result, build, args, useColors, procStatus, pipe, fed, rd, done, cpn,
                   pbar, fwd, userIn, userTyped, userClosed, childIn, now>>

\* SelectDone with the diagnostics passed through on a read error as well
SelectDoneReplayOnError ==
    /\ Running /\ pc = "select"
    /\ done # <<>>
    /\ done' = Tail(done)
    /\ IF Head(done) # "nil"
       THEN /\ Exit(1, <<Msg("error")>> \o replay(1))
       ELSE /\ pc' = "wait"
            /\ UNCHANGED <<exitCode, out>>
    /\ UNCHANGED <<input, result, build, args, useColors, proc, procStatus, pipe, fed, rd,
                   sigChan, cpn, pbar, fwd, userIn, userTyped, userClosed,
                   childIn, now>>

\* select: case err := <-done
SelectDone ==
    /\ Running /\ pc = "select"
    /\ done # <<>>
    /\ done' = Tail(done)
    /\ IF Head(done) # "nil"
       THEN /\ Exit(1, <<Msg("error")>>)
       ELSE /\ pc' = "wait"
            /\ UNCHANGED <<exitCode, out>>
    /\ UNCHANGED <<input, result, build, args, useColors, proc, procStatus, pipe, fed, rd,
                   sigChan, cpn, pbar, fwd, userIn, userTyped, userClosed, childIn,
                   now>>

\* afterWait without the test of the exit status before the replay
afterWaitReplayAlways(ended, status) ==
    IF ended = "exited" THEN <<status, pbar, replay(status)>>
    ELSE <<1, pbar, <<Msg("error")>>>>

\* afterWait with the deferred Close run before the exit on a failure as well
afterWaitClosesOnFailure(ended, status) ==
    IF ended = "exited" /\ status # 0
    THEN <<status, Close(pbar)[1], Close(pbar)[2] \o replay(status)>>
    ELSE IF ended = "lost" THEN <<1, pbar, <<Msg("error")>>>>
    ELSE <<0, Close(pbar)[1], Close(pbar)[2]>>

\* the end of main once cmd.Wait() has returned:
\* <<the exit status, the bar afterwards, what was written>>
afterWait(ended, status) ==
    IF ended = "exited" /\ status # 0 THEN <<status, pbar, replay(status)>>
    ELSE IF ended = "lost" THEN <<1, pbar, <<Msg("error")>>>>
    ELSE <<0, Close(pbar)[1], Close(pbar)[2]>>

\* cmd.Wait() returns once the wrapped process has ended
WaitReturn ==
    /\ Running /\ pc = "wait"
    /\ proc \in {"exited", "lost"}
    /\ pbar' = afterWait(proc, procStatus)[2]
    /\ Exit(afterWait(proc, procStatus)[1], afterWait(proc, procStatus)[3])
    /\ UNCHANGED <<input, result, build, args, useColors, proc, procStatus, pipe, fed, rd, done,
                   sigChan, cpn, fwd, userIn, userTyped, userClosed, childIn, now>>

----------------------------------------------------------------------------
(* the reading goroutine *)

\* ReadByte that waits while a forward is reading the user's input
ReadByteAfterForwards ==
    /\ Running /\ rd = "reading"
    /\ pipe # <<>>
    /\ \A i \in 1..Len(fwd) : fwd[i].st = "done"
    /\ ProcessChar(Head(pipe))
    /\ pipe' = Tail(pipe)
    /\ fed' = Append(fed, Head(pipe))
    /\ UNCHANGED <<input, result, build, args, useColors, pc, exitCode, proc,
                   procStatus, rd, done, sigChan, userIn, userTyped, userClosed,
                   childIn, now>>

\* reader.ReadByte() returns a byte: notifier.ProcessChar(b)
ReadByte ==
    /\ Running /\ rd = "reading"
    /\ pipe # <<>>
    /\ ProcessChar(Head(pipe))
    /\ pipe' = Tail(pipe)
    /\ fed' = Append(fed, Head(pipe))
    /\ UNCHANGED <<input, result, build, args, useColors, pc, exitCode, proc, procStatus, rd,
                   done, sigChan, userIn, userTyped, userClosed, childIn, now>>

\* reader.ReadByte() returns io.EOF: the pipe is drained and its write end
\* closed, by the end of the wrapped process or by the process itself
ReadEOF ==
    /\ Running /\ rd = "reading"
    /\ pipe = <<>>
    /\ done' = Append(done, "nil")
    /\ rd' = "done"
    /\ UNCHANGED <<input, result, build, args, useColors, pc, exitCode, proc, procStatus, pipe,
                   fed, sigChan, cpn, pbar, out, fwd, userIn, userTyped,
                   userClosed, childIn, now>>

\* reader.ReadByte() returns another error
ReadError ==
    /\ Running /\ rd = "reading"
    /\ done' = Append(done, "err")
    /\ rd' = "done"
    /\ UNCHANGED <<input, result, build, args, useColors, pc, exitCode, proc, procStatus, pipe,
                   fed, sigChan, cpn, pbar, out, fwd, userIn, userTyped,
                   userClosed, childIn, now>>

----------------------------------------------------------------------------
(* forwardUserInput goroutines *)

\* the index of the first LF of s, or 0
FirstLF(s) ==
    LET at == {i \in 1..Len(s) : s[i] = LF}
    IN  IF at = {} THEN 0 ELSE Min(at)

\* forwardWrite with the line's terminator trimmed
forwardWriteTrimmed(line) == childIn \o SubSeq(line, 1, Len(line) - 1)

\* cpn.stdinWriter.Write([]byte(line))
forwardWrite(line) == childIn \o line

\* one Read of reader.ReadString('\n') takes n bytes of the device; with the
\* terminator among them the line is written to the wrapped process's stdin
ForwardRead(i, n) ==
    /\ Running /\ build = "part_000"
    /\ fwd[i].st = "reading"
    /\ n \in 1..Len(userIn)
    /\ userIn' = SubSeq(userIn, n + 1, Len(userIn))
    /\ LET got == fwd[i].acc \o SubSeq(userIn, 1, n)
           k == FirstLF(got)
       IN  IF k = 0
           THEN /\ fwd' = [fwd EXCEPT ![i].acc = got]
                /\ UNCHANGED <<childIn, cpn>>
           ELSE /\ fwd' = [fwd EXCEPT ![i] = [st |-> "done", acc |-> got,
                                              line |-> SubSeq(got, 1, k)]]
                /\ childIn' = forwardWrite(SubSeq(got, 1, k))
                /\ cpn' = [cpn EXCEPT !.waitingForInput = FALSE]
    /\ UNCHANGED <<input, result, build, args, useColors, pc, exitCode, proc, procStatus, pipe,
                   fed, rd, done, sigChan, pbar, out, userTyped, userClosed, now>>

\* ForwardReadFail with the bytes read before the failure written all the same
ForwardReadFailWrites(i) ==
    /\ Running /\ build = "part_000"
    /\ fwd[i].st = "reading"
    /\ userIn = <<>> /\ userClosed
    /\ fwd' = [fwd EXCEPT ![i].st = "done"]
    /\ childIn' = forwardWrite(fwd[i].acc)
    /\ UNCHANGED <<input, result, build, args, useColors, pc, exitCode, proc,
                   procStatus, pipe, fed, rd, done, sigChan, cpn, pbar, out, userIn,
                   userTyped, userClosed, now>>

\* reader.ReadString('\n') fails: the device ended before a terminator was read
ForwardReadFail(i) ==
    /\ Running /\ build = "part_000"
    /\ fwd[i].st = "reading"
    /\ userIn = <<>> /\ userClosed
    /\ fwd' = [fwd EXCEPT ![i].st = "done"]
    /\ UNCHANGED <<input, result, build, args, useColors, pc, exitCode, proc, procStatus, pipe,
                   fed, rd, done, sigChan, cpn, pbar, out, userIn, userTyped,
                   userClosed, childIn, now>>

----------------------------------------------------------------------------
(* the environment *)

\* an interrupt or a terminate arrives; with the channel full it is dropped
Signal(sig) ==
    /\ Running /\ pc # "args"
    /\ sigChan = <<>>
    /\ sigChan' = <<sig>>
    /\ UNCHANGED <<input, result, build, args, useColors, pc, exitCode, proc, procStatus, pipe,
                   fed, rd, done, cpn, pbar, out, fwd, userIn, userTyped,
                   userClosed, childIn, now>>

\* the wrapped process ends by itself: it exits with procStatus, or it ends in a
\* way that leaves cmd.Wait() no exit status to report
ProcExit(ended) ==
    /\ Running /\ proc = "running"
    /\ proc' = ended
    /\ UNCHANGED <<input, result, build, args, useColors, pc, exitCode, procStatus, pipe, fed, rd,
                   done, sigChan, cpn, pbar, out, fwd, userIn, userTyped,
                   userClosed, childIn, now>>

\* time passes while the bar exists
Tick(d) ==
    /\ Running /\ rd = "reading" /\ pbar # NoBar
    /\ now + d <= MaxTime
    /\ now' = now + d
    /\ UNCHANGED <<input, result, build, args, useColors, pc, exitCode, proc, procStatus, pipe,
                   fed, rd, done, sigChan, cpn, pbar, out, fwd, userIn, userTyped,
                   userClosed, childIn>>

TickSteps == {UpdateDelayMs \div 2, UpdateDelayMs}

----------------------------------------------------------------------------
(* Specifications *)

Setup ==
    \/ CheckArgs
    \/ StderrPipeOk
    \/ StderrPipeFail
    \/ StartOk
    \/ StartFail

Supervise ==
    \/ SelectSignal
    \/ SelectDone
    \/ WaitReturn
    \/ \E sig \in {SIGINT, SIGTERM} : Signal(sig)
    \/ \E ended \in {"exited", "lost"} : ProcExit(ended)

Reading ==
    \/ ReadByte
    \/ ReadEOF
    \/ ReadError
    \/ \E d \in TickSteps : Tick(d)

Forwarding ==
    \/ \E i \in 1..Len(fwd) : \E n \in 1..Len(userIn) : ForwardRead(i, n)
    \/ \E i \in 1..Len(fwd) : ForwardReadFail(i)

\* the revision of src/unnamed/part_000
Next == Setup \/ StdinPipeOk \/ StdinPipeFail \/ Supervise \/ Reading \/ Forwarding
Spec == Init /\ [][Next]_vars

\* the same program with the user's input typed ahead
SpecTypeAhead == InitTypeAhead /\ [][Next]_vars

\* the same revision with its goroutines scheduled: main and the reading
\* goroutine take a step they can take; nothing is assumed of the wrapped
\* process, the signals, the user or the clock
InitInterrupt == InitProgram({"part_000"}, StreamLines, 1)
Scheduling ==
    /\ WF_vars(Setup \/ StdinPipeOk \/ StdinPipeFail)
    /\ WF_vars(SelectSignal \/ SelectDone)
    /\ WF_vars(WaitReturn)
    /\ WF_vars(ReadByte \/ ReadEOF \/ ReadError)
SpecScheduled == InitInterrupt /\ [][Next]_vars /\ Scheduling

\* the revision of src/fpb.go
NextFpb == Setup \/ Supervise \/ Reading
SpecFpb == InitFpb /\ [][NextFpb]_vars

\* either revision fed whole lines of facts after a successful spawn
NextFacts ==
    \/ ReadByte
    \/ ReadEOF
    \/ SelectDone
    \/ WaitReturn
    \/ \E d \in TickSteps : Tick(d)
SpecFacts == InitFacts /\ [][NextFacts]_vars

\* either revision fed a stream of pieces after a successful spawn
SpecFeed == InitFeed /\ [][NextFacts]_vars

\* one call of one function
NextCalls ==
    \/ CallGetDuration
    \/ CallHandleFilename
    \/ CallStripANSI
    \/ CallRender
    \/ CallBuildBar
    \/ CallGetFPS
SpecCalls == InitCalls /\ [][NextCalls]_vars

----------------------------------------------------------------------------
(* Reading the state *)

IsReplay(r) == r.kind = "replay"
IsPromptEcho(r) == r.kind = "prompt"
IsRender(r) == r.kind = "render"
TextsOf(recs) == [i \in 1..Len(recs) |-> recs[i].text]

\* the texts main replayed, and the prompts echoed, in order
ReplayTexts == TextsOf(SelectSeq(out, IsReplay))
PromptEchoTexts == TextsOf(SelectSeq(out, IsPromptEcho))

EndsInPrompt(line) == HasSuffix(line, PromptSuffix)
PromptLines == SelectSeq(cpn.lines, EndsInPrompt)

\* the first line of the user's input, through its terminator
FirstLine(u) == SubSeq(u, 1, FirstLF(u))

\* main has ended, and where
Exited == ~Running
ExitedAtWait == Exited /\ pc = "wait"
ExitedInSetup == Exited /\ pc \in {"args", "stderrPipe", "stdinPipe", "start"}
ExitedOnReadError == Exited /\ pc = "select" /\ rd = "done" /\ done = <<>>

\* a line of the wrapped process as the history keeps it: without its terminator
Unterminated(line) == SubSeq(line, 1, Len(line) - 1)

\* the history lines that were handed to the matchers (a line finalized by the
\* prompt detection is not), and those among them with a position
Parsed == {i \in 1..Len(cpn.lines) : ~EndsInPrompt(cpn.lines[i])}
PosLines == {i \in Parsed : progressRx(cpn.lines[i]) # <<>>}
FirstPos == Min(PosLines)
LastPos == Max(PosLines)
PosOf(i) ==
    LET m == progressRx(cpn.lines[i]) IN seconds(m[2], m[3], m[4])

\* the first known value each matcher yields on the parsed lines 1..k
DurationBy(k) ==
    LET at == {i \in Parsed : i <= k /\ getDuration(cpn.lines[i]) # 0}
    IN  IF at = {} THEN 0 ELSE getDuration(cpn.lines[Min(at)])
FpsBy(k) ==
    LET at == {i \in Parsed : i <= k /\ getFPS(cpn.lines[i]) # 0}
    IN  IF at = {} THEN 0 ELSE getFPS(cpn.lines[Min(at)])
SourceBy(k) ==
    LET at == {i \in Parsed : i <= k /\ getSource(cpn.lines[i]) # <<>>}
    IN  IF at = {} THEN <<>> ELSE getSource(cpn.lines[Min(at)])

\* the value of the first parsed line each matcher matches at all
FirstMatchDuration ==
    LET at == {i \in Parsed : durationRx(cpn.lines[i]) # <<>>}
    IN  IF at = {} THEN 0 ELSE getDuration(cpn.lines[Min(at)])
FirstMatchFps ==
    LET at == {i \in Parsed : fpsRx(cpn.lines[i]) # <<>>}
    IN  IF at = {} THEN 0 ELSE getFPS(cpn.lines[Min(at)])
FirstMatchSource ==
    LET at == {i \in Parsed : sourceRx(cpn.lines[i]) # <<>>}
    IN  IF at = {} THEN <<>> ELSE getSource(cpn.lines[Min(at)])

\* the status lines written, in order
Renders == SelectSeq(out, IsRender)

----------------------------------------------------------------------------
(* Claims *)

\* C1: when the reading goroutine ended at end-of-stream and the wrapped process
\* then exits with a status N # 0, the program has written every byte it read
\* from the process's stderr, in order, exactly once as its last write, and has
\* exited with N.
C1_ReplayOnFailure ==
    (ExitedAtWait /\ proc = "exited" /\ procStatus # 0) =>
        /\ exitCode = procStatus
        /\ ReplayTexts = (IF fed = <<>> THEN <<>> ELSE <<fed>>)
        /\ (fed # <<>> => IsReplay(out[Len(out)]))

\* C2: the diagnostics are never replayed for a wrapped process that exits with
\* status zero, and the program then exits with status 0.
C2_NoReplayOnSuccess ==
    /\ (procStatus = 0 => ReplayTexts = <<>>)
    /\ (ExitedAtWait /\ proc = "exited" /\ procStatus = 0) => exitCode = 0

C2_Witness ==
    /\ ExitedAtWait /\ proc = "exited" /\ procStatus = 0
    /\ cpn.stderrBuffer # <<>>
    /\ exitCode = 0

\* C3: when the signal case of the select is taken, the wrapped process is
\* killed and the program exits with 128 + the number of the signal received.
C3_SignalStatus ==
    [][(Running /\ pc = "select" /\ sigChan # <<>> /\ sigChan' # sigChan) =>
          /\ exitCode' = SignalExitBase + Head(sigChan)
          /\ proc' # "running"]_vars

\* C4: a failure of the program itself -- no arguments, a pipe that cannot be
\* created, a spawn that fails, a read error other than end-of-stream -- ends it
\* with status 1 and without a replay; with no arguments or no pipe, no process
\* was spawned.
C4_SupervisorFailure ==
    /\ (ExitedInSetup \/ ExitedOnReadError) =>
           exitCode = 1 /\ ReplayTexts = <<>>
    /\ (Exited /\ pc \in {"args", "stderrPipe", "stdinPipe"}) => proc = "none"
    /\ (Exited /\ pc = "args") => args = 0

C4_Witness ==
    /\ ExitedOnReadError
    /\ cpn.stderrBuffer # <<>>
    /\ exitCode = 1

\* C5: each time the line buffer comes to end in "[y/N] " the whole buffer is
\* echoed once, finalized into the history and reset, and one forward is
\* started; a single forward that has read the user's line has written exactly
\* that line, terminator included, once to the wrapped process's stdin.
C5_PromptForward ==
    /\ PromptEchoTexts = PromptLines
    /\ Len(fwd) = Len(PromptLines)
    /\ ~EndsInPrompt(cpn.lineAcc)
    /\ Len(fwd) = 1 =>
           childIn = (IF fwd[1].st = "done" /\ fwd[1].line # <<>>
                      THEN FirstLine(userTyped) ELSE <<>>)

C5_Witness ==
    /\ PromptEchoTexts = <<PromptLine>>
    /\ cpn.lines = <<PromptLine>> /\ cpn.lineAcc = <<>>
    /\ Len(fwd) = 1 /\ fwd[1].st = "done"
    /\ userTyped = <<"y", LF>>
    /\ childIn = <<"y", LF>>

\* C6: with no frame rate learned, the sample of a position line of P seconds is
\* current = P, unit seconds, on a bar whose total is the duration and whose
\* description is the base name of the source known at the first position line;
\* "Duration: 00:01:30.00", "from 'a/clip.mp4':", "time=00:00:45.00" give 45 of
\* 90 seconds, 50%, labelled clip.mp4, and that is the status line written.
C6_SecondsSample ==
    /\ (Running /\ pbar # NoBar /\ cpn.fps = 0) =>
           /\ pbar.current = PosOf(LastPos)
           /\ pbar.total = DurationBy(FirstPos)
           /\ pbar.unit = "seconds"
           /\ pbar.desc = (IF SourceBy(FirstPos) = <<>> THEN Processing
                           ELSE SourceBy(FirstPos))
    /\ (/\ Running
        /\ cpn.lines = <<Unterminated(Dur90Line), Unterminated(FromLine),
                         Unterminated(Time45Line)>>) =>
           /\ pbar.current = 45 /\ pbar.total = 90 /\ pbar.unit = "seconds"
           /\ pbar.current * 100 = 50 * pbar.total
           /\ pbar.desc = ClipName
           /\ Renders = <<OutRec("render", ClipName, 45, 90, useColors)>>

C6_Witness ==
    /\ Running
    /\ cpn.lines = <<Unterminated(Dur90Line), Unterminated(FromLine),
                     Unterminated(Time45Line)>>
    /\ cpn.lineAcc = <<>>
    /\ pbar # NoBar /\ pbar.current = 45 /\ pbar.total = 90

\* C7: with the frame rate F learned by the first position line, every sample is
\* in frames: current = P * F and total = D * F on a bar of unit frames;
\* "29.97 fps", "Duration: 00:01:30.00", "time=00:00:45.00" give 1305 of 2610.
C7_FramesSample ==
    /\ (Running /\ pbar # NoBar /\ FpsBy(FirstPos) > 0) =>
           /\ pbar.current = PosOf(LastPos) * FpsBy(FirstPos)
           /\ pbar.total = DurationBy(FirstPos) * FpsBy(FirstPos)
           /\ pbar.unit = "frames"
    /\ (/\ Running
        /\ cpn.lines = <<Unterminated(FpsLine), Unterminated(Dur90Line),
                         Unterminated(Time45Line)>>) =>
           /\ cpn.fps = 29
           /\ pbar.current = 1305 /\ pbar.total = 2610 /\ pbar.unit = "frames"
           /\ pbar.current * 100 = 50 * pbar.total

C7_Witness ==
    /\ Running
    /\ cpn.lines = <<Unterminated(FpsLine), Unterminated(Dur90Line),
                     Unterminated(Time45Line)>>
    /\ pbar # NoBar /\ pbar.current = 1305 /\ pbar.total = 2610

\* C8, as claimed: each fact holds the value of the first parsed line its matcher
\* matches, from that line on.
C8_SetByFirstMatch ==
    /\ cpn.duration = FirstMatchDuration
    /\ cpn.fps = FirstMatchFps
    /\ cpn.source = FirstMatchSource

\* C8, amended: each fact holds the first known value (a duration or frame rate
\* other than 0, a source name) its matcher yields on a parsed line, from that
\* line on; no later line changes it.
C8_SetByFirstKnownValue ==
    /\ cpn.duration = DurationBy(Len(cpn.lines))
    /\ cpn.fps = FpsBy(Len(cpn.lines))
    /\ cpn.source = SourceBy(Len(cpn.lines))

C8_Witness ==
    /\ cpn.lines = <<Unterminated(Dur0Line), Unterminated(Dur90Line),
                     Unterminated(Dur0Line)>>
    /\ cpn.duration = 90

\* C9: once a frame rate is known, the sample of every later position line has
\* its current value and its total in frames (the position and the duration
\* known by that line, times the frame rate), whenever the frame rate and the
\* duration were learned.
C9_FramesOnceFpsKnown ==
    (Running /\ pbar # NoBar /\ FpsBy(LastPos) > 0) =>
        /\ pbar.current = PosOf(LastPos) * FpsBy(LastPos)
        /\ pbar.total = DurationBy(LastPos) * FpsBy(LastPos)
        /\ pbar.unit = "frames"

\* C10: once the bar exists, its total, unit and description never change.
C10_BarKeepsTotalUnitDesc ==
    [][pbar # NoBar =>
          /\ pbar' # NoBar
          /\ pbar'.total = pbar.total
          /\ pbar'.unit = pbar.unit
          /\ pbar'.desc = pbar.desc]_vars

C10_Witness ==
    /\ pbar # NoBar
    /\ pbar.total = 0 /\ cpn.duration = 90
    /\ pbar.unit = "seconds" /\ cpn.fps = 29
    /\ pbar.current = 45

\* the last line of a history, and the sample a position line stands for once
\* the frame rate is f
LastLine(lines) == lines[Len(lines)]
SampleOf(line, f) ==
    LET m == progressRx(line)
        s == seconds(m[2], m[3], m[4])
    IN  IF f > 0 THEN s * f ELSE s

\* a step of the reading goroutine that completes a position line: an Update
UpdateStep ==
    /\ Len(cpn'.lines) = Len(cpn.lines) + 1
    /\ ~EndsInPrompt(LastLine(cpn'.lines))
    /\ progressRx(LastLine(cpn'.lines)) # <<>>
\* the step in which the deferred Close runs Finish
FinishStep == Running /\ exitCode' = 0 /\ pc = "wait" /\ pbar # NoBar

\* C11: an Update always stores the sample; it writes one status line when it is
\* the first one or at least 50 ms have passed since the last line an Update
\* wrote, and otherwise writes nothing, then or later; Finish always writes the
\* status line with current = total, whatever the time.
C11_RenderThrottle ==
    [][/\ UpdateStep =>
            /\ pbar' # NoBar
            /\ pbar'.current = SampleOf(LastLine(cpn'.lines), cpn'.fps)
            /\ IF pbar = NoBar \/ pbar.lastUpdate = ZeroTime
                   \/ now - pbar.lastUpdate >= UpdateDelayMs
               THEN /\ out' = Append(out, OutRec("render", handleFilename(pbar'.desc),
                                                 pbar'.current, pbar'.total,
                                                 useColors))
                    /\ pbar'.lastUpdate = now
               ELSE /\ out' = out
                    /\ pbar'.lastUpdate = pbar.lastUpdate
       /\ FinishStep =>
            /\ pbar'.current = pbar.total
            /\ out' = out \o <<OutRec("render", pbar.desc, pbar.total,
                                       pbar.total, useColors), Msg("newline")>>
       /\ (~UpdateStep /\ ~FinishStep) =>
            /\ Renders' = Renders
            /\ pbar # NoBar => pbar'.lastUpdate = pbar.lastUpdate]_vars

C11_Witness ==
    /\ cpn.lines = <<Unterminated(Time45Line), Unterminated(Time60Line),
                     Unterminated(Time45Line)>>
    /\ Len(Renders) = 2
    /\ Renders[2].current = 45
    /\ pbar.lastUpdate = UpdateDelayMs

\* C12: while the session runs, of two successive status lines with the same
\* total the later one never shows a smaller percentage.
C12_PercentageMonotone ==
    Running =>
        \A i \in 1..(Len(Renders) - 1) :
            Renders[i].total = Renders[i + 1].total =>
                percentage(Renders[i].current, Renders[i].total)
                    <= percentage(Renders[i + 1].current, Renders[i + 1].total)

\* a call has returned
Called(fn) == input.fn = fn /\ result # NoResult

\* the trailing information without its colours: what the terminal shows of it
PlainOf(info) ==
    IF info \in {ShortInfo(TRUE), ShortInfo(FALSE)} THEN ShortInfo(FALSE)
    ELSE LongInfo(FALSE)

\* C13: the bar of every render is at least 5 wide; with a terminal narrower
\* than 20, or a computed width (terminal width - length of the label - 1 -
\* displayed length of the trailing information) below 5, it is the width
\* computed for a terminal of 80, and 5 if that is less; otherwise it is the
\* computed width.
C13_BarWidth ==
    Called("render") =>
        LET label == handleFilename(input.desc)
            shown == Len(PlainOf(input.info))
            computed == input.termWidth - Len(label) - 1 - shown
            for80 == FallbackWidth - Len(label) - 1 - shown
        IN  /\ result.val >= MinBarSpace
            /\ IF input.termWidth < MinTermWidth \/ computed < MinBarSpace
               THEN result.val = (IF for80 < MinBarSpace THEN MinBarSpace ELSE for80)
               ELSE result.val = computed

\* a coloured trailing information too long for a terminal of 80: the limit acts
C13_Witness ==
    /\ Called("render")
    /\ input.info = LongInfo(TRUE)
    /\ input.desc = Desc(MaxLabelLen + 1, 0)
    /\ input.termWidth = FallbackWidth
    /\ result.val = MinBarSpace

\* the number two decimal digits stand for
FieldValue(d) == 10 * DigitVal(d[1]) + DigitVal(d[2])

\* C14: for every two-digit hours, minutes and seconds field of a matched
\* "Duration: HH:MM:SS.ff" the duration is (h * 60 + m) * 60 + s, whatever the
\* two digits after the point.
C14_SecondsOfTimestamp ==
    Called("getDuration") =>
        result.val = (FieldValue(input.hours) * 60 + FieldValue(input.minutes)) * 60
                     + FieldValue(input.secs)

C14_Witness ==
    /\ Called("getDuration")
    /\ input.hours = <<"0", "9">> /\ input.minutes = <<"5", "9">>
    /\ input.secs = <<"5", "0">> /\ input.frac = <<"9", "9">>
    /\ result.val = 35990

\* the characters of a name: every byte but the second one of a two-byte
\* character starts one
CharStarts(name) == {i \in 1..Len(name) : name[i] # WideCont}
Chars(name) == Cardinality(CharStarts(name))
\* the first n characters of a name of more than n characters
FirstChars(name, n) ==
    LET next == CHOOSE i \in CharStarts(name) :
                    Cardinality({j \in CharStarts(name) : j < i}) = n
    IN  SubSeq(name, 1, next - 1)

\* C15: a description of more than 30 characters is rendered as its first 27
\* characters followed by "...", 30 characters in all; one of 30 characters or
\* fewer is rendered as it is.
C15_LabelTruncation ==
    Called("handleFilename") =>
        IF Chars(input.filename) > MaxLabelLen
        THEN /\ result.val = FirstChars(input.filename, LabelKeep) \o <<".", ".", ".">>
             /\ Chars(result.val) = MaxLabelLen
        ELSE result.val = input.filename

\* a text holds an escape sequence, or an escape byte that begins none
HasEscapeSequence(s) == \E i \in 1..Len(s) : AnsiEnd(s, i) > 0
HasStrayEscape(s) == \E i \in 1..Len(s) : s[i] = ESC /\ AnsiEnd(s, i) = 0
HasNonASCII(s) == \E i \in 1..Len(s) : s[i] \in NonASCII

\* C16, as claimed: for every text, stripping the stripped text changes nothing,
\* and the stripped text holds no escape sequence and no rune beyond 0x7F.
C16_StripIdempotent ==
    Called("stripANSI") =>
        /\ stripANSI(result.val) = result.val
        /\ ~HasEscapeSequence(result.val)
        /\ ~HasNonASCII(result.val)

\* C16, amended: the stripped text never holds a rune beyond 0x7F; for a text in
\* which every escape byte begins an escape sequence, as in every trailing
\* information render formats, stripping the stripped text changes nothing and
\* the stripped text holds no escape sequence.
C16_StripIdempotentOnWholeSequences ==
    Called("stripANSI") =>
        /\ ~HasNonASCII(result.val)
        /\ ~HasStrayEscape(input.str) =>
               /\ stripANSI(result.val) = result.val
               /\ ~HasEscapeSequence(result.val)
        /\ input.str \in InfoSamples =>
               /\ ~HasStrayEscape(input.str)
               /\ Len(result.val) = Len(PlainOf(input.str))

C16_Witness ==
    /\ Called("stripANSI")
    /\ input.str = ShortInfo(TRUE)
    /\ result.val = unicodeReReplace(ShortInfo(FALSE))
    /\ HasEscapeSequence(input.str) /\ HasNonASCII(input.str)

\* forward i has ended on a failed read: it is done without a line
Abandoned(i) == fwd[i].st = "done" /\ fwd[i].line = <<>>
\* the step in which forward i ends on a failed read
AbandonStep(i) ==
    /\ i \in 1..Len(fwd) /\ fwd[i].st = "reading"
    /\ fwd'[i].st = "done" /\ fwd'[i].line = <<>>

\* C17: a forward whose read fails ends in that step and stays ended; the step
\* writes nothing to the wrapped process's stdin and nothing to the program's
\* stderr, starts no other forward, and leaves the reading goroutine, main and
\* the exit status as they were; with every forward abandoned the wrapped
\* process has been sent nothing.
C17_ForwardAbandoned ==
    /\ []((Len(fwd) > 0 /\ \A i \in 1..Len(fwd) : fwd[i].st = "done" => Abandoned(i))
            => childIn = <<>>)
    /\ [][\A i \in 1..Len(fwd) :
            /\ AbandonStep(i) =>
                   /\ childIn' = childIn /\ out' = out
                   /\ Len(fwd') = Len(fwd)
                   /\ rd' = rd /\ done' = done /\ pipe' = pipe /\ cpn' = cpn
                   /\ pc' = pc /\ exitCode' = exitCode
            /\ Abandoned(i) => fwd'[i] = fwd[i]]_vars

\* the user's input ended after "y" without a terminator: the forward is
\* abandoned, and the program still ends with the wrapped process's status
C17_Witness ==
    /\ Len(fwd) = 1 /\ Abandoned(1)
    /\ fwd[1].acc = <<"y">> /\ userTyped = <<"y">>
    /\ childIn = <<>>
    /\ ExitedAtWait /\ exitCode = procStatus /\ procStatus = MaxStatus

IsTerminator(b) == b = CR \/ b = LF
IsNoTerminator(b) == ~IsTerminator(b)
NoTerminatorIn(s) == \A i \in 1..Len(s) : ~IsTerminator(s[i])

\* C18: every byte fed that is no terminator is in the history or in the
\* accumulator, in the order fed; no history line and no accumulator holds a CR
\* or LF; the history has one line for each terminator fed and one for each
\* prompt detected, the empty lines included; and the lines completed by a
\* terminator are the ones handed to the matchers: the bar exists exactly when
\* one of them holds a position.
C18_LineAccumulator ==
    /\ Concat(cpn.lines) \o cpn.lineAcc = SelectSeq(fed, IsNoTerminator)
    /\ \A i \in 1..Len(cpn.lines) : NoTerminatorIn(cpn.lines[i])
    /\ NoTerminatorIn(cpn.lineAcc)
    /\ Len(cpn.lines) = Len(SelectSeq(fed, IsTerminator)) + Len(PromptEchoTexts)
    /\ (pbar # NoBar) <=> (PosLines # {})

C18_Witness ==
    /\ fed = <<CR, "e">> \o PromptSuffix \o <<LF>>
    /\ cpn.lines = <<<<>>, <<"e">> \o PromptSuffix, <<>>>>
    /\ cpn.lineAcc = <<>>
    /\ build = "fpb.go"

\* C19: the diagnostics buffer is the sequence of all bytes fed to the notifier
\* so far, in order, terminators and prompts included -- whatever became of
\* them as lines, facts or prompts -- and it is what GetStderrContent returns.
C19_BufferMirrorsFeed == cpn.stderrBuffer = fed

C19_Witness ==
    /\ fed = PromptLine \o ErrLine
    /\ cpn.stderrBuffer = PromptLine \o ErrLine
    /\ Len(fwd) = 1 /\ cpn.lines = <<PromptLine, Unterminated(ErrLine)>>

\* main waits for the wrapped process, which runs on after the reading goroutine
\* has finished, and no signal has been delivered so far
WaitingUninterrupted ==
    /\ Running /\ pc = "wait" /\ rd = "done"
    /\ proc = "running" /\ sigChan = <<>>
InterruptDelivered == sigChan = <<SIGINT>>
EndedByInterrupt == exitCode = SignalExitBase + SIGINT /\ proc = "killed"

\* C20: an interrupt delivered after the spawn ends the program: the wrapped
\* process is killed and the program exits with the signal status -- also when
\* it is delivered while main waits for a wrapped process that runs on after
\* the reading goroutine has finished.
C20_InterruptEndsRun ==
    [](WaitingUninterrupted => [](InterruptDelivered => <>EndedByInterrupt))

\* the next step of forward i is the one that ends its read: it writes the line
\* and then cpn.waitingForInput
ForwardCanFinish(i) ==
    /\ Running /\ fwd[i].st = "reading"
    /\ \E n \in 1..Len(userIn) : FirstLF(fwd[i].acc \o SubSeq(userIn, 1, n)) > 0
\* the next byte the reading goroutine processes completes a prompt suffix:
\* ProcessChar writes cpn.waitingForInput
ReaderDetectsPrompt ==
    /\ Running /\ rd = "reading" /\ pipe # <<>>
    /\ ~(Head(pipe) = CR \/ Head(pipe) = LF)
    /\ HasSuffix(Append(cpn.lineAcc, Head(pipe)), PromptSuffix)

\* C21: a forward shares no variable of the notifier with the reading goroutine:
\* there is no state in which the next step of a forward and the next step of
\* the reading goroutine, which nothing orders, both write the same field.
C21_NoSharedNotifierWrite ==
    ~(\E i \in 1..Len(fwd) : ForwardCanFinish(i) /\ ReaderDetectsPrompt)

ForwardPending == \E i \in 1..Len(fwd) : fwd[i].st = "reading"

\* C22: with a forward waiting for the user's input, every step the reading
\* goroutine and main have to take can be taken: a byte of the pipe is read and
\* processed, the end of the stream is reported, the done case is taken and the
\* return of cmd.Wait ends the program.
C22_ForwardBlocksNobody ==
    (Running /\ ForwardPending) =>
        /\ (rd = "reading" /\ pipe # <<>>) => ENABLED ReadByte
        /\ (rd = "reading" /\ pipe = <<>>) => ENABLED ReadEOF
        /\ (pc = "select" /\ done # <<>>) => ENABLED SelectDone
        /\ (pc = "wait" /\ proc \in {"exited", "lost"}) => ENABLED WaitReturn

\* after the prompt a position line was read and rendered, and the program has
\* ended with the wrapped process's status while the forward still waits
C22_Witness ==
    /\ ForwardPending /\ userTyped = <<>> /\ ~userClosed
    /\ cpn.lines = <<PromptLine, Unterminated(Time45Line)>>
    /\ pbar # NoBar /\ Len(Renders) >= 1
    /\ ExitedAtWait /\ exitCode = 0


\* the forwards that wrote a line to the wrapped process's stdin
ForwardsWritten == {i \in 1..Len(fwd) : fwd[i].st = "done" /\ fwd[i].line # <<>>}

RECURSIVE WrittenBytes(_)
WrittenBytes(S) ==
    IF S = {} THEN 0
    ELSE LET i == CHOOSE j \in S : TRUE
         IN  Len(fwd[i].line) + WrittenBytes(S \ {i})

\* C23: every prompt detection started exactly one forward; a forward that wrote
\* wrote one line, a terminator at its end and nowhere else; what the wrapped
\* process received is one write per such forward; a forward that has not
\* finished wrote nothing; forwards and writes never outnumber the detections.
C23_OneForwardPerPrompt ==
    build = "part_000" =>
        /\ Len(fwd) = Len(PromptEchoTexts)
        /\ \A i \in ForwardsWritten :
               /\ FirstLF(fwd[i].line) = Len(fwd[i].line)
               /\ fwd[i].line = SubSeq(fwd[i].acc, 1, Len(fwd[i].line))
        /\ \A i \in 1..Len(fwd) : fwd[i].st = "reading" => fwd[i].line = <<>>
        /\ Len(childIn) = WrittenBytes(ForwardsWritten)
        /\ Cardinality(ForwardsWritten) <= Len(PromptEchoTexts)

\* two prompts were detected: two forwards, one wrote the user's line, the other
\* still waits
C23_Witness ==
    /\ Len(PromptEchoTexts) = 2 /\ Len(fwd) = 2
    /\ Cardinality(ForwardsWritten) = 1
    /\ childIn = <<"y", LF>>
    /\ \E i \in 1..2 : fwd[i].st = "reading"


\* forward i wrote a line and no other forward has taken a byte of the device
OnlyForwardThatRead(i) ==
    /\ i \in ForwardsWritten
    /\ \A j \in 1..Len(fwd) : j # i => fwd[j].st = "reading" /\ fwd[j].acc = <<>>

\* C24: a forward takes from the user's input device one line through its
\* terminator and nothing beyond it: after the only forward that has read wrote
\* its line, the device still holds everything that followed the line, so with
\* "y\nn\n" on the device the first forward writes "y\n" and leaves "n\n" for
\* the second.
C24_ForwardTakesOneLine ==
    \A i \in 1..Len(fwd) :
        OnlyForwardThatRead(i) =>
            /\ fwd[i].line = SubSeq(userTyped, 1, Len(fwd[i].line))
            /\ userIn = SubSeq(userTyped, Len(fwd[i].line) + 1, Len(userTyped))


\* what a step writes to the program's stderr
Written == SubSeq(out', Len(out) + 1, Len(out'))
\* a step of the reading goroutine: it takes a byte of the pipe
ReaderStep == rd = "reading" /\ rd' = "reading" /\ fed' # fed

\* C25: status lines are written one after the other in the order they are
\* issued: a step only appends to what was written; a step that writes a
\* status line is either a step of the reading goroutine that completes a
\* position line and writes the one line of that sample, or the exit step that
\* runs the deferred Close after the reading goroutine has finished; a prompt
\* echo is written by a step of the reading goroutine.
C25_RendersByOneTask ==
    [][/\ Len(out') >= Len(out) /\ SubSeq(out', 1, Len(out)) = out
       /\ (\E k \in 1..Len(Written) : IsRender(Written[k])) =>
              \/ /\ ReaderStep /\ UpdateStep
                 /\ Len(Written) = 1
                 /\ Written[1].current = SampleOf(LastLine(cpn'.lines), cpn'.fps)
              \/ /\ rd = "done" /\ FinishStep
                 /\ Len(SelectSeq(Written, IsRender)) = 1
       /\ (\E k \in 1..Len(Written) : IsPromptEcho(Written[k])) => ReaderStep
      ]_vars

\* the reading goroutine wrote a prompt echo and a status line, finished, and
\* the deferred Close wrote the last status line
C25_Witness ==
    /\ ExitedAtWait /\ exitCode = 0 /\ rd = "done"
    /\ Len(Renders) = 2 /\ Len(PromptEchoTexts) = 1
    /\ out[Len(out)] = Msg("newline")


\* floor(k * x / 100) of a float64 x that is not negative, in exact arithmetic
FloorOfHundredth(k, x) ==
    LET n == TimesSmall(x.bits, k)
    IN  IF x.exp >= 0 THEN ValueOf(n \o Zeros(x.exp)) \div 100
        ELSE IF Len(n) + x.exp <= 0 THEN 0
        ELSE ValueOf(SubSeq(n, 1, Len(n) + x.exp)) \div 100

\* C26: for a bar of W >= 1 cells and the percentage p >= 0 of the render, both
\* bars have W cells; with n = floor(W * p / 100) the first min(n, W) cells of
\* the decorated bar are the highlighted solid glyph, the cell at index n, when
\* n < W, is the only transition glyph, the cells after it are the solid glyph
\* not highlighted; the plain bar has the same glyph at every cell.
C26_BarCells ==
    Called("buildBar") =>
        LET W == input.space
            n == FloorOfHundredth(W, percentageFloat(input.current, input.total))
            rich == result.val.rich
            simple == result.val.simple
        IN  /\ Len(rich) = W /\ Len(simple) = W
            /\ \A i \in 1..W :
                   /\ i - 1 < n => rich[i] = Cell(Solid, TRUE)
                   /\ i - 1 = n => rich[i].glyph = Transition
                   /\ i - 1 > n => rich[i] = Cell(Solid, FALSE)
                   /\ simple[i].glyph = rich[i].glyph
            /\ Cardinality({i \in 1..W : rich[i].glyph = Transition})
                   = (IF n < W THEN 1 ELSE 0)


\* C27: the frame rate getFPS returns for a line with a decimal number right
\* before " fps" is the whole part of that number, whatever its digits; for a
\* line without such a number it is 0, the unknown rate.
C27_FpsIntegerPart ==
    Called("getFPS") =>
        result.val = (IF input.whole = <<>> THEN 0 ELSE Atoi(input.whole))


\* where the line break of Finish was written
LineBreaks == {k \in 1..Len(out) : out[k] = Msg("newline")}
\* main returned after cmd.Wait() reported the exit status 0
CleanExit == ExitedAtWait /\ proc = "exited" /\ procStatus = 0

\* C28: the last status line, with current set to total, and the line break
\* after it are written when the program ends if and only if a bar exists and
\* the wrapped process exited with status 0; they are then the last two things
\* written. While the program runs, and when it ends on a signal, a read
\* error or a failure of the wrapped process, no line break is written, so the
\* replayed diagnostics follow what was written last.
C28_FinalRenderOnCleanExit ==
    /\ Running => LineBreaks = {}
    /\ Exited => (LineBreaks # {} <=> (pbar # NoBar /\ CleanExit))
    /\ LineBreaks # {} =>
           /\ Len(out) >= 2 /\ LineBreaks = {Len(out)}
           /\ IsRender(out[Len(out) - 1])
           /\ out[Len(out) - 1].current = out[Len(out) - 1].total
           /\ pbar.current = pbar.total
    /\ (Exited /\ ReplayTexts # <<>>) => IsReplay(out[Len(out)])

\* a status line with current at the position read was written, then the wrapped
\* process exited with status 0: a line with current = total and the line break
\* end the output
C28_Witness ==
    /\ CleanExit /\ pbar # NoBar
    /\ Len(out) = 3
    /\ IsRender(out[1]) /\ out[1].current # out[1].total
    /\ IsRender(out[2]) /\ out[2].current = out[2].total
    /\ out[3] = Msg("newline")


\* the step wrote a prompt echo: the byte it fed completed a prompt suffix
PromptStep == Len(out') = Len(out) + 1 /\ IsPromptEcho(out'[Len(out')])
\* the step fed a terminator right after the byte that completed a prompt
TerminatorAfterPromptStep ==
    /\ Len(fed') = Len(fed) + 1 /\ IsTerminator(fed'[Len(fed')])
    /\ cpn.lineAcc = <<>> /\ cpn.lines # <<>> /\ EndsInPrompt(LastLine(cpn.lines))
    /\ HasSuffix(fed, PromptSuffix)
FactsKept ==
    /\ cpn'.duration = cpn.duration /\ cpn'.source = cpn.source /\ cpn'.fps = cpn.fps
    /\ pbar' = pbar

\* C29: the step that detects a prompt appends the line, prompt suffix
\* included, to the history and empties the accumulator, and it changes no
\* fact, creates or updates no bar and writes no status line, whatever the line
\* holds; the terminator that comes next completes an empty line.
C29_PromptLineUnmatched ==
    [][/\ PromptStep =>
              /\ Len(fed') = Len(fed) + 1
              /\ cpn'.lines = Append(cpn.lines, Append(cpn.lineAcc, fed'[Len(fed')]))
              /\ EndsInPrompt(LastLine(cpn'.lines))
              /\ cpn'.lineAcc = <<>>
              /\ FactsKept
       /\ TerminatorAfterPromptStep =>
              /\ cpn'.lines = Append(cpn.lines, <<>>)
              /\ FactsKept /\ out' = out
      ]_vars

\* "29.97 fps[y/N] " and a line feed were fed: the history has the prompt line
\* and an empty line, and the frame rate is still unknown
C29_Witness ==
    /\ fed = Unterminated(FpsLine) \o PromptSuffix \o <<LF>>
    /\ cpn.lines = <<Unterminated(FpsLine) \o PromptSuffix, <<>>>>
    /\ cpn.fps = 0 /\ pbar = NoBar

====
